---- MODULE Spec2Model ----
(***************************************************************************)
(* Citation-to-highlight resolution of philinhphan/document-agent: the     *)
(* POST /api/highlight route handler in its two revisions                  *)
(*   LlmFirst    = src/unnamed/part_006               (LLM, then matcher)  *)
(*   DirectFirst = src/src/app/api/highlight/route.ts (matcher, then LLM)  *)
(* with the text helpers they are built from.                              *)
(*                                                                         *)
(* Strings are sequences of one-character strings over Alphabet.  "_"      *)
(* stands for U+00A0 (no-break space) and "~" for an en dash, one of the   *)
(* dash variants of normalizeForComparison.                                *)
(***************************************************************************)
EXTENDS Integers, Sequences, FiniteSets, TLC

\* ------------------------------------------------------------------ bounds

\* Longest answer snippet drawn for the direct matcher.
MaxSnippetLen == 3
\* Longest chunk list drawn for the direct matcher.
MaxChunks == 2

\* ------------------------------------------------------------------ text

Alphabet == {"a", "A", " ", "_", "-", "~"}

\* JS \s (which contains U+00A0) and String.prototype.trim's white space.
IsSpace(c) == c \in {" ", "_"}

\* The class [‐‑‒–—―] of normalizeForComparison.
IsDashVariant(c) == c = "~"

\* String.prototype.toLowerCase on one character.
toLowerCase(c) == IF c = "A" THEN "a" ELSE c

StrOfLen(n) == [1..n -> Alphabet]
StrUpTo(n) == UNION {StrOfLen(k) : k \in 0..n}

Drop(s, n) == SubSeq(s, n + 1, Len(s))

\* Number of leading white-space characters of s.
RECURSIVE LeadingWs(_)
LeadingWs(s) ==
  IF s = <<>> \/ ~IsSpace(Head(s)) THEN 0 ELSE 1 + LeadingWs(Tail(s))

RECURSIVE TrailingWs(_)
TrailingWs(s) ==
  IF s = <<>> \/ ~IsSpace(s[Len(s)]) THEN 0
  ELSE 1 + TrailingWs(SubSeq(s, 1, Len(s) - 1))

\* String.prototype.trim.
trim(s) ==
  LET l == LeadingWs(s)
  IN IF l = Len(s) THEN <<>> ELSE SubSeq(s, l + 1, Len(s) - TrailingWs(s))

\* Runs of plain spaces collapsed, and each NBSP then turned into a space of
\* its own.
collapseWhitespace_NbspApart(s) ==
  LET f[i \in 0..Len(s)] ==
        IF i = 0 THEN <<>>
        ELSE IF s[i] = " " /\ i > 1 /\ s[i - 1] = " " THEN f[i - 1]
             ELSE Append(f[i - 1], IF s[i] = "_" THEN " " ELSE s[i])
  IN f[Len(s)]

\* value.replace(/[\s ]+/g, ' ')
RECURSIVE collapseWhitespace(_)
collapseWhitespace(s) ==
  IF s = <<>> THEN <<>>
  ELSE IF IsSpace(Head(s))
       THEN <<" ">> \o collapseWhitespace(Drop(s, LeadingWs(s)))
       ELSE <<Head(s)>> \o collapseWhitespace(Tail(s))

\* value.replace(/[‐‑‒–—―]/g, '-')
replaceDashes(s) == [i \in 1..Len(s) |-> IF IsDashVariant(s[i]) THEN "-" ELSE s[i]]

lowerCase(s) == [i \in 1..Len(s) |-> toLowerCase(s[i])]

normalizeForComparison(value) ==
  lowerCase(trim(replaceDashes(collapseWhitespace(value))))

\* String.prototype.includes.
includes(hay, needle) ==
  \E i \in 0..(Len(hay) - Len(needle)) : SubSeq(hay, i + 1, i + Len(needle)) = needle

\* ------------------------------------------------------------------ regex

\* The token the pattern holds for a run of white space of the snippet.
WsPlus == "\\s+"

\* escapeForRegex(value).replace(/\s+/g, '\\s+'): every character of the
\* snippet becomes a literal (the escape makes "-" literal), a run of white
\* space becomes one \s+.
RECURSIVE buildPattern(_)
buildPattern(s) ==
  IF s = <<>> THEN <<>>
  ELSE IF IsSpace(Head(s))
       THEN <<WsPlus>> \o buildPattern(Drop(s, LeadingWs(s)))
       ELSE <<Head(s)>> \o buildPattern(Tail(s))

SetMax(S) == CHOOSE x \in S : \A y \in S : y <= x

\* Length of the match of pat anchored at the start of s under the i flag,
\* -1 when there is none; \s+ is greedy and backtracks.
RECURSIVE matchAt(_, _)
matchAt(s, pat) ==
  IF pat = <<>> THEN 0
  ELSE IF Head(pat) = WsPlus
       THEN LET ok == {j \in 1..LeadingWs(s) : matchAt(Drop(s, j), Tail(pat)) # -1}
            IN IF ok = {} THEN -1
               ELSE SetMax(ok) + matchAt(Drop(s, SetMax(ok)), Tail(pat))
       ELSE IF s # <<>> /\ toLowerCase(Head(s)) = toLowerCase(Head(pat))
            THEN LET r == matchAt(Tail(s), Tail(pat))
                 IN IF r = -1 THEN -1 ELSE 1 + r
            ELSE -1

\* content.match(new RegExp(pattern, 'i')): the leftmost match, or none.
regexMatch(content, pat) ==
  LET starts == {i \in 0..Len(content) : matchAt(Drop(content, i), pat) # -1}
  IN IF starts = {} THEN [found |-> FALSE, text |-> <<>>]
     ELSE LET i == CHOOSE x \in starts : \A y \in starts : x <= y
          IN [found |-> TRUE,
              text |-> SubSeq(content, i + 1, i + matchAt(Drop(content, i), pat))]

\* ------------------------------------------------------------------ chunks

\* A row of document_chunks (ChunkRecord): content is null when hasContent
\* is FALSE; a metadata field that is absent is the string Absent.
Absent == "<absent>"

Chunk(id, hasContent, content, source, page, locPage, orgUrl) ==
  [id |-> id, hasContent |-> hasContent, content |-> content, source |-> source,
   page |-> page, locPage |-> locPage, orgUrl |-> orgUrl]

\* chunk.content ?? ''
contentOf(chunk) == IF chunk.hasContent THEN chunk.content ELSE <<>>

\* null, as the result of a matching stage.
NoHighlight == [found |-> FALSE, text |-> <<>>, chunkId |-> -1]

Highlight(text, chunkId) == [found |-> TRUE, text |-> text, chunkId |-> chunkId]

\* ------------------------------------------------------------------ direct matcher

\* The test with the arguments of includes swapped.
chunkMatches_Swapped(chunk, cleanedSnippet) ==
  /\ contentOf(chunk) # <<>>
  /\ includes(normalizeForComparison(cleanedSnippet),
              normalizeForComparison(contentOf(chunk)))

\* The test of the loop body of findDirectMatch (LlmFirst revision).
chunkMatches(chunk, cleanedSnippet) ==
  /\ contentOf(chunk) # <<>>
  /\ includes(normalizeForComparison(contentOf(chunk)),
              normalizeForComparison(cleanedSnippet))

\* The loop body returning the cleaned snippet whether or not the regex matches.
matchText_SnippetAlways(chunk, cleanedSnippet) == cleanedSnippet

\* The value the loop body returns for a chunk that passed the test: the
\* regex match in the raw content, else the cleaned snippet.
matchText(chunk, cleanedSnippet) ==
  LET match == regexMatch(contentOf(chunk), buildPattern(cleanedSnippet))
  IN IF match.found THEN match.text ELSE cleanedSnippet

\* findDirectMatch without its two early returns for an empty snippet.
findDirectMatch_NoEmptyReturn(chunks, snippet) ==
  LET cleanedSnippet == trim(snippet)
      hits == {i \in 1..Len(chunks) : chunkMatches(chunks[i], cleanedSnippet)}
  IN IF hits = {} THEN NoHighlight
     ELSE LET i == CHOOSE x \in hits : \A y \in hits : x <= y
          IN Highlight(matchText(chunks[i], cleanedSnippet), chunks[i].id)

\* findDirectMatch of the LlmFirst revision, for a string snippet.
findDirectMatch(chunks, snippet) ==
  LET cleanedSnippet == trim(snippet)
      hits == {i \in 1..Len(chunks) : chunkMatches(chunks[i], cleanedSnippet)}
  IN IF cleanedSnippet = <<>> THEN NoHighlight
     ELSE IF normalizeForComparison(cleanedSnippet) = <<>> THEN NoHighlight
     ELSE IF hits = {} THEN NoHighlight
     ELSE LET i == CHOOSE x \in hits : \A y \in hits : x <= y
          IN Highlight(matchText(chunks[i], cleanedSnippet), chunks[i].id)

\* The two tests of the loop body of findDirectMatch (DirectFirst revision).
chunkMatchesRoute(chunk, cleanedSnippet) ==
  /\ contentOf(chunk) # <<>>
  /\ \/ includes(contentOf(chunk), cleanedSnippet)
     \/ regexMatch(contentOf(chunk), buildPattern(cleanedSnippet)).found

matchTextRoute(chunk, cleanedSnippet) ==
  IF includes(contentOf(chunk), cleanedSnippet) THEN cleanedSnippet
  ELSE regexMatch(contentOf(chunk), buildPattern(cleanedSnippet)).text

\* findDirectMatch of the DirectFirst revision, for a string snippet.
findDirectMatchRoute(chunks, snippet) ==
  LET cleanedSnippet == trim(snippet)
      hits == {i \in 1..Len(chunks) : chunkMatchesRoute(chunks[i], cleanedSnippet)}
  IN IF cleanedSnippet = <<>> THEN NoHighlight
     ELSE IF hits = {} THEN NoHighlight
     ELSE LET i == CHOOSE x \in hits : \A y \in hits : x <= y
          IN Highlight(matchTextRoute(chunks[i], cleanedSnippet), chunks[i].id)

Revisions == {"LlmFirst", "DirectFirst"}

directMatchOf(revision, chunks, snippet) ==
  IF revision = "LlmFirst" THEN findDirectMatch(chunks, snippet)
  ELSE findDirectMatchRoute(chunks, snippet)

\* ------------------------------------------------------------------ chunk store

\* A page text is a sequence over {"p", "0".."9"}; NoPage is the value of a
\* metadata field that is absent (metadata->>page is SQL NULL).
NoPage == <<>>

DigitChars == <<"0", "1", "2", "3", "4", "5", "6", "7", "8", "9">>

IsDigit(c) == \E d \in 1..10 : DigitChars[d] = c

\* Number.prototype.toString of a page number 0..9.
numberToString(n) == <<DigitChars[n + 1]>>

\* page.match(/\d+/): the first maximal run of digits, <<>> when there is none.
RECURSIVE digitRun(_)
digitRun(s) ==
  IF s = <<>> \/ ~IsDigit(Head(s)) THEN <<>> ELSE <<Head(s)>> \o digitRun(Tail(s))

RECURSIVE firstDigits(_)
firstDigits(s) ==
  IF s = <<>> THEN <<>>
  ELSE IF IsDigit(Head(s)) THEN digitRun(s) ELSE firstDigits(Tail(s))

\* The document_chunks table the requests run against.
Store ==
  << Chunk(1, TRUE,  <<"A", " ", "_", "a">>, "a.pdf", <<"5">>, NoPage, "acme"),
     Chunk(2, TRUE,  <<"a", "-", "A">>,      "a.pdf", <<"5">>, NoPage, "acme"),
     Chunk(3, TRUE,  <<"a", "-", "A">>,      "a.pdf", <<"5">>, NoPage, "other"),
     Chunk(4, TRUE,  <<"a", "~", "a">>,      "a.pdf", NoPage, <<"6">>, "acme"),
     Chunk(5, FALSE, <<>>,                   "b.pdf", <<"5">>, NoPage, "acme"),
     Chunk(6, TRUE,  <<" ", "a", "_">>,      "b.pdf", NoPage, <<"6">>, "other") >>
  \o [i \in 1..9 |-> Chunk(6 + i, TRUE, <<"a", "a">>, "c.pdf", NoPage, NoPage, "acme")]

\* The rows of Store from index i on whose index is in K, in table order.
RECURSIVE rowsFrom(_, _)
rowsFrom(K, i) ==
  IF i > Len(Store) THEN <<>>
  ELSE (IF i \in K THEN <<Store[i]>> ELSE <<>>) \o rowsFrom(K, i + 1)

\* .limit(8) of the page-less fallback query.
FallbackLimit == 8

firstRows(s, n) == SubSeq(s, 1, IF Len(s) < n THEN Len(s) ELSE n)

\* The filter orgUrl adds to a query: none unless orgUrl is truthy.
orgFilter(orgUrl, row) == (orgUrl # Absent /\ orgUrl # "") => row.orgUrl = orgUrl

\* Tier 1: metadata->>source = filename and metadata->>page = pageValue.
exactPageRows(filename, pageValue, orgUrl) ==
  rowsFrom({i \in 1..Len(Store) :
              /\ Store[i].source = filename
              /\ Store[i].page # NoPage /\ Store[i].page = pageValue
              /\ orgFilter(orgUrl, Store[i])}, 1)

\* Tier 2: metadata->>source = filename and metadata->loc->>pageNumber = digits.
locPageRows(filename, digits, orgUrl) ==
  rowsFrom({i \in 1..Len(Store) :
              /\ Store[i].source = filename
              /\ Store[i].locPage # NoPage /\ Store[i].locPage = digits
              /\ orgFilter(orgUrl, Store[i])}, 1)

\* The page-less query without .limit(8).
fallbackRows_NoLimit(filename, orgUrl) ==
  rowsFrom({i \in 1..Len(Store) :
              Store[i].source = filename /\ orgFilter(orgUrl, Store[i])}, 1)

\* The page-less query without the org filter.
fallbackRows_NoOrgFilter(filename, orgUrl) ==
  firstRows(rowsFrom({i \in 1..Len(Store) : Store[i].source = filename}, 1),
            FallbackLimit)

\* Tier 3: metadata->>source = filename, limit 8.
fallbackRows(filename, orgUrl) ==
  firstRows(rowsFrom({i \in 1..Len(Store) :
                        Store[i].source = filename /\ orgFilter(orgUrl, Store[i])}, 1),
            FallbackLimit)

\* ------------------------------------------------------------------ request

\* A page of the request body: undefined, null, a number 0..9 or a string.
Page(type, num, str) == [type |-> type, num |-> num, str |-> str]

\* answerSnippet after the destructuring default (undefined becomes ''): a
\* string, null, or a non-zero number.
Snippet(type, str) == [type |-> type, str |-> str]

Filenames == {Absent, "", "a.pdf", "b.pdf", "c.pdf"}

Pages ==
  { Page("undefined", 0, <<>>), Page("null", 0, <<>>),
    Page("number", 5, <<>>), Page("number", 6, <<>>), Page("number", 7, <<>>),
    Page("string", 0, <<"p", "6">>), Page("string", 0, <<"p">>) }

Snippets ==
  { Snippet("string", <<>>), Snippet("string", <<"_">>),
    Snippet("string", <<"a", " ", "a">>), Snippet("string", <<"a", "~", "a">>),
    Snippet("string", <<"a", "a">>),
    Snippet("null", <<>>), Snippet("number", <<>>) }

OrgUrls == {Absent, "", "acme", "other"}

Bodies ==
  [filename : Filenames, page : Pages, answerSnippet : Snippets, orgUrl : OrgUrls]

\* process.env: the Supabase URL and key, and OPENAI_API_KEY.
Envs == [supabase : BOOLEAN, openai : BOOLEAN]

\* JS truthiness of answerSnippet.
truthySnippet(sn) == (sn.type = "string" /\ sn.str # <<>>) \/ sn.type = "number"

\* !filename
missingFilename(f) == f = Absent \/ f = ""

\* const pageValue = typeof page === 'number' ? page.toString() : page
\* (null reaches the filter as the text null).
pageValueOf(page) ==
  IF page.type = "number" THEN numberToString(page.num)
  ELSE IF page.type = "null" THEN <<"n", "u", "l", "l">>
  ELSE page.str

\* pageNumberFallback, <<>> for null.
pageNumberFallbackOf(page) ==
  IF page.type = "number" THEN numberToString(page.num)
  ELSE IF page.type = "string" THEN firstDigits(page.str)
  ELSE <<>>

\* ------------------------------------------------------------------ response

NoResponse == [status |-> 0, error |-> "", highlight |-> NoHighlight, chunks |-> <<>>]

ErrorResponse(status, error) ==
  [status |-> status, error |-> error, highlight |-> NoHighlight, chunks |-> <<>>]

\* Number(text) of a metadata page text, -1 for null (absent or NaN).
RECURSIVE digitsValue(_)
digitsValue(s) ==
  IF s = <<>> THEN 0
  ELSE 10 * digitsValue(SubSeq(s, 1, Len(s) - 1))
       + (CHOOSE d \in 0..9 : DigitChars[d + 1] = s[Len(s)])

toNumberOrNull(text) ==
  IF text = NoPage THEN -1
  ELSE IF \A i \in 1..Len(text) : IsDigit(text[i]) THEN digitsValue(text)
  ELSE -1

serializeChunk(chunk) ==
  [id |-> chunk.id, text |-> contentOf(chunk),
   page |-> IF toNumberOrNull(chunk.page) # -1 THEN toNumberOrNull(chunk.page)
            ELSE toNumberOrNull(chunk.locPage),
   source |-> chunk.source]

\* A serializer that leaves out the chunks without content.
RECURSIVE serializeChunks_SkipEmpty(_)
serializeChunks_SkipEmpty(cs) ==
  IF cs = <<>> THEN <<>>
  ELSE (IF contentOf(Head(cs)) = <<>> THEN <<>> ELSE <<serializeChunk(Head(cs))>>)
       \o serializeChunks_SkipEmpty(Tail(cs))

serializeChunks(cs) == [i \in 1..Len(cs) |-> serializeChunk(cs[i])]

OkResponse(highlight, cs) ==
  [status |-> 200, error |-> "", highlight |-> highlight, chunks |-> serializeChunks(cs)]

\* ------------------------------------------------------------------ LLM stage

\* Longest exactText drawn exhaustively for the LLM's answer.
MaxExactTextLen == 2

\* What llm.invoke gives back, by the path the handler takes on it:
\*   throw    the call rejects
\*   empty    parseLlmResponse yields null or ''
\*   nobrace  the content has no {...} region
\*   badjson  JSON.parse throws on the region
\*   json     an object; chunkIndex is a number idx2 / 2 when idxIsNum,
\*            exactText is the string text when textIsStr
LlmOut(kind, idxIsNum, idx2, textIsStr, text) ==
  [kind |-> kind, idxIsNum |-> idxIsNum, idx2 |-> idx2,
   textIsStr |-> textIsStr, text |-> text]

NoLlmOut == LlmOut("none", FALSE, 0, FALSE, <<>>)

ExactTexts ==
  StrUpTo(MaxExactTextLen)
    \cup {<<"a", " ", "a">>, <<"a", "~", "a">>, <<"A", " ", "_", "a">>}

\* chunkIndex values, doubled, for n candidates: -1, 0, 0.5, n-1, n-0.5, n.
ChunkIndexes2(n) == {-2, 0, 1, 2 * (n - 1), 2 * n - 1, 2 * n}

LlmOutputs(n) ==
  {LlmOut(k, FALSE, 0, FALSE, <<>>) : k \in {"throw", "empty", "nobrace", "badjson"}}
    \cup {LlmOut("json", TRUE, i, TRUE, t) : i \in ChunkIndexes2(n), t \in ExactTexts}
    \cup {LlmOut("json", FALSE, 0, TRUE, t) : t \in {<<"a">>}}
    \cup {LlmOut("json", TRUE, i, FALSE, <<>>) : i \in {0}}

\* The test the revision applies to exactText against the target's content.
\* The gate without the substring test.
spanAccepted_NoCheck(revision, content, exactText) == exactText # <<>>

spanAccepted(revision, content, exactText) ==
  /\ exactText # <<>>
  /\ IF revision = "LlmFirst"
     THEN includes(normalizeForComparison(content), normalizeForComparison(exactText))
     ELSE includes(content, exactText)

\* typeof chunkIndex === 'number' && chunkIndex >= 0 && chunkIndex < chunks.length
\* && typeof exactText === 'string'
indexAccepted(out, cs) ==
  /\ out.idxIsNum /\ out.idx2 >= 0 /\ out.idx2 < 2 * Len(cs)
  /\ out.textIsStr

\* The LLM stage with chunkIndex used as the chunk id.
llmHighlight_IndexAsId(revision, out, cs) ==
  IF out.kind # "json" THEN NoHighlight
  ELSE IF ~indexAccepted(out, cs) THEN NoHighlight
  ELSE IF out.idx2 % 2 # 0 THEN NoHighlight
  ELSE IF spanAccepted(revision, contentOf(cs[(out.idx2 \div 2) + 1]), out.text)
       THEN Highlight(out.text, out.idx2 \div 2)
       ELSE NoHighlight

\* highlightResult after the try/catch around the LLM call.  A fractional
\* chunkIndex passes the range test, chunks[chunkIndex] is undefined and
\* reading its content throws inside the try: the result stays null.
llmHighlight(revision, out, cs) ==
  IF out.kind # "json" THEN NoHighlight
  ELSE IF ~indexAccepted(out, cs) THEN NoHighlight
  ELSE IF out.idx2 % 2 # 0 THEN NoHighlight
  ELSE LET targetChunk == cs[(out.idx2 \div 2) + 1]
       IN IF spanAccepted(revision, contentOf(targetChunk), out.text)
          THEN Highlight(out.text, targetChunk.id)
          ELSE NoHighlight

\* ------------------------------------------------------------------ state

VARIABLES
  revision,   \* the revision of the route that serves the request
  body,       \* the parsed request body
  env,        \* process.env
  pc,         \* where the handler is: start, tier1, tier2, tier3, llm, done
  chunks,     \* let chunks: the candidate set
  queries,    \* the chunk-store queries issued, with their outcomes
  stages,     \* the matching stages run, in order: "llm", "direct"
  llmOut,     \* what the LLM call gave back
  llmStage,   \* highlightResult right after the LLM stage
  response,   \* the response sent
  dm,         \* a call of the direct matcher on its own
  nf,         \* a call of normalizeForComparison, and one on its result
  pdfViewerState,  \* the chat page's viewer state
  fetches,    \* the calls of handleShowSource that have not finished
  settled,    \* the call of handleShowSource that finished in the last step
  parked,     \* the locals of the requests the event loop is not running
  oracle,     \* how the chunk store and the LLM answer, the same for every request
  overlap,    \* two requests have been between their first await and their response
  viewer,     \* the PdfViewer component: props as rendered, state, text layer
  ingest      \* a request to POST /api/ingest and the row of document_uploads

clientVars == <<pdfViewerState, fetches, settled>>

concVars == <<parked, oracle, overlap>>

vars == <<revision, body, env, pc, chunks, queries, stages, llmOut, llmStage, response,
          dm, nf, pdfViewerState, fetches, settled, parked, oracle, overlap, viewer,
          ingest>>


handlerVars == <<revision, body, env, pc, chunks, queries, stages, llmOut, llmStage, response>>

\* What the steps of the handler, of the matcher, of the normalizer and of the
\* chat page leave alone.
notHandler == <<dm, nf, clientVars, concVars, viewer, ingest>>

notDirect == <<handlerVars, nf, clientVars, concVars, viewer, ingest>>

notNormalize == <<handlerVars, dm, clientVars, concVars, viewer, ingest>>

notClient == <<handlerVars, dm, nf, concVars, viewer, ingest>>

notViewer == <<handlerVars, dm, nf, clientVars, concVars, ingest>>

notIngest == <<handlerVars, dm, nf, clientVars, concVars, viewer>>

\* A query as issued; outcome is pending, ok or error, rows its data.
Query(tier, field, value, limit) ==
  [tier |-> tier, filename |-> body.filename, field |-> field, value |-> value,
   orgUrl |-> IF body.orgUrl # Absent /\ body.orgUrl # "" THEN body.orgUrl ELSE Absent,
   limit |-> limit, outcome |-> "pending", rows |-> <<>>]

\* queries with the outcome of the query in flight filled in.
answered(outcome, rows) ==
  [queries EXCEPT ![Len(queries)] = [@ EXCEPT !.outcome = outcome, !.rows = rows]]

DmIdle == [pc |-> "idle", revision |-> "LlmFirst", chunks |-> <<>>, snippet |-> <<>>,
           result |-> NoHighlight]

NfIdle == [pc |-> "idle", value |-> <<>>, once |-> <<>>, twice |-> <<>>]

\* A value that may be undefined or null.
Undefined == [defined |-> FALSE, value |-> <<>>]

Defined(v) == [defined |-> TRUE, value |-> v]

\* useState<...>(null)
NoViewer == [open |-> FALSE, filename |-> Absent, page |-> 0,
             highlightSnippets |-> Undefined, fallbackChunks |-> Undefined]

NoSettled == [outcome |-> "none"]

ClientIdle ==
  /\ pdfViewerState = NoViewer
  /\ fetches = <<>>
  /\ settled = NoSettled

NoOracle == [down |-> {}, llm |-> [kind |-> "none", out |-> NoLlmOut]]

\* One request at a time.
ConcIdle ==
  /\ parked = <<>>
  /\ oracle = NoOracle
  /\ overlap = FALSE

\* PdfViewer is not mounted.
NoPdfViewer ==
  [mounted |-> FALSE, filename |-> Absent, initialPage |-> 0,
   highlightSnippets |-> Undefined, fallbackChunks |-> Undefined,
   doc |-> "none", numPages |-> 0, pageNumber |-> 0,
   layer |-> FALSE, styled |-> {}, timer |-> FALSE, ran |-> FALSE]

\* No request to /api/ingest.
NoIngest ==
  [pc |-> "idle", filename |-> Absent, env |-> [supabase |-> FALSE, openai |-> FALSE],
   row |-> [status |-> "none", error_message |-> FALSE], hadRow |-> FALSE,
   validated |-> FALSE, writes |-> <<>>, response |-> 0]

Init ==
  /\ revision \in Revisions
  /\ body \in Bodies
  /\ env \in Envs
  /\ pc = "start"
  /\ chunks = <<>>
  /\ queries = <<>>
  /\ stages = <<>>
  /\ llmOut = NoLlmOut
  /\ llmStage = NoHighlight
  /\ response = NoResponse
  /\ dm = DmIdle
  /\ nf = NfIdle
  /\ ClientIdle
  /\ ConcIdle
  /\ viewer = NoPdfViewer
  /\ ingest = NoIngest

\* ------------------------------------------------------------------ handler

Goto(npc, ncs, nqs, nst, nout, nllm, nresp) ==
  /\ pc' = npc
  /\ chunks' = ncs
  /\ queries' = nqs
  /\ stages' = nst
  /\ llmOut' = nout
  /\ llmStage' = nllm
  /\ response' = nresp
  /\ UNCHANGED <<revision, body, env, notHandler>>

\* return NextResponse.json(...)
Send(resp, ncs, nqs, nst, nout, nllm) == Goto("done", ncs, nqs, nst, nout, nllm, resp)

\* The outer catch: { error: 'Internal server error' }, status 500.
InternalError == ErrorResponse(500, "Internal server error")

\* answerSnippet?.slice(0, 200) of the request log of the LlmFirst revision
\* throws for a number (slice is undefined); null and strings pass.
requestLogThrows ==
  revision = "LlmFirst" /\ body.answerSnippet.type = "number"

\* snippet.trim() throws for anything but a string.
trimThrows == body.answerSnippet.type # "string"

\* LlmFirst with the direct matcher run whatever the LLM stage found, its
\* match replacing the LLM's.
finishLlmFirst_DirectAlways(cs, qs, st, out, llmRes) ==
  IF trimThrows
  THEN Send(InternalError, cs, qs, Append(st, "direct"), out, llmRes)
  ELSE Send(OkResponse(IF findDirectMatch(cs, body.answerSnippet.str).found
                       THEN findDirectMatch(cs, body.answerSnippet.str)
                       ELSE llmRes, cs),
            cs, qs, Append(st, "direct"), out, llmRes)

\* LlmFirst, after the LLM stage: the direct matcher runs when the LLM stage
\* left highlightResult null; then the response.
finishLlmFirst(cs, qs, st, out, llmRes) ==
  IF llmRes.found
  THEN Send(OkResponse(llmRes, cs), cs, qs, st, out, llmRes)
  ELSE IF trimThrows
       THEN Send(InternalError, cs, qs, Append(st, "direct"), out, llmRes)
       ELSE Send(OkResponse(findDirectMatch(cs, body.answerSnippet.str), cs),
                 cs, qs, Append(st, "direct"), out, llmRes)

\* The handler calling the LLM without looking at OPENAI_API_KEY or at
\* answerSnippet.
afterLocate_AlwaysLlm(cs, qs) ==
  IF revision = "LlmFirst"
  THEN Goto("llm", cs, qs, <<"llm">>, NoLlmOut, NoHighlight, NoResponse)
  ELSE LET sn == body.answerSnippet
           st == IF truthySnippet(sn) THEN <<"direct">> ELSE <<>>
       IN IF truthySnippet(sn) /\ trimThrows
          THEN Send(InternalError, cs, qs, st, NoLlmOut, NoHighlight)
          ELSE IF truthySnippet(sn) /\ findDirectMatchRoute(cs, sn.str).found
          THEN Send(OkResponse(findDirectMatchRoute(cs, sn.str), cs), cs, qs, st,
                    NoLlmOut, NoHighlight)
          ELSE Goto("llm", cs, qs, Append(st, "llm"), NoLlmOut, NoHighlight, NoResponse)

\* The handler from the point where chunks is non-empty up to its next
\* await or its response.
afterLocate(cs, qs) ==
  IF revision = "LlmFirst"
  THEN IF env.openai
       THEN Goto("llm", cs, qs, <<"llm">>, NoLlmOut, NoHighlight, NoResponse)
       ELSE finishLlmFirst(cs, qs, <<>>, NoLlmOut, NoHighlight)
  ELSE LET sn == body.answerSnippet
           st == IF truthySnippet(sn) THEN <<"direct">> ELSE <<>>
       IN IF truthySnippet(sn) /\ trimThrows
          THEN Send(InternalError, cs, qs, st, NoLlmOut, NoHighlight)
          ELSE LET directMatch == IF truthySnippet(sn)
                                  THEN findDirectMatchRoute(cs, sn.str)
                                  ELSE NoHighlight
               IN IF directMatch.found
                  THEN Send(OkResponse(directMatch, cs), cs, qs, st, NoLlmOut, NoHighlight)
                  ELSE IF truthySnippet(sn) /\ env.openai
                       THEN Goto("llm", cs, qs, Append(st, "llm"),
                                 NoLlmOut, NoHighlight, NoResponse)
                       ELSE Send(OkResponse(NoHighlight, cs), cs, qs, st,
                                 NoLlmOut, NoHighlight)

\* The fallback query issued together with the LLM call.
issueFallback_WithLlm(qs) ==
  Goto("tier3", <<>>, Append(qs, Query(3, "none", <<>>, FallbackLimit)),
       <<"llm">>, NoLlmOut, NoHighlight, NoResponse)

\* await fallbackQuery
issueFallback(qs) ==
  Goto("tier3", <<>>, Append(qs, Query(3, "none", <<>>, FallbackLimit)),
       <<>>, NoLlmOut, NoHighlight, NoResponse)

\* POST up to its first await: the body, the request log, the two guards and
\* the exact-page query.
Receive ==
  /\ pc = "start"
  /\ IF requestLogThrows
     THEN Send(InternalError, <<>>, <<>>, <<>>, NoLlmOut, NoHighlight)
     ELSE IF missingFilename(body.filename) \/ body.page.type = "undefined"
     THEN Send(ErrorResponse(400, "filename and page are required"),
               <<>>, <<>>, <<>>, NoLlmOut, NoHighlight)
     ELSE IF ~env.supabase
     THEN Send(ErrorResponse(500, "Missing Supabase configuration"),
               <<>>, <<>>, <<>>, NoLlmOut, NoHighlight)
     ELSE Goto("tier1", <<>>, <<Query(1, "page", pageValueOf(body.page), 0)>>,
               <<>>, NoLlmOut, NoHighlight, NoResponse)

\* The exact-page query returns { data, error }.
Tier1Return ==
  /\ pc = "tier1"
  /\ \E failed \in BOOLEAN :
       IF failed
       THEN Send(ErrorResponse(500, "Failed to fetch chunks"),
                 <<>>, answered("error", <<>>), <<>>, NoLlmOut, NoHighlight)
       ELSE LET data == exactPageRows(body.filename, pageValueOf(body.page), body.orgUrl)
                qs == answered("ok", data)
            IN IF data # <<>> THEN afterLocate(data, qs)
               ELSE IF revision = "LlmFirst" /\ pageNumberFallbackOf(body.page) # <<>>
               THEN Goto("tier2", <<>>,
                         Append(qs, Query(2, "loc.pageNumber",
                                          pageNumberFallbackOf(body.page), 0)),
                         <<>>, NoLlmOut, NoHighlight, NoResponse)
               ELSE issueFallback(qs)

\* The loc.pageNumber query followed by the page-less query whatever it found.
Tier2Return_NoShortCircuit ==
  /\ pc = "tier2"
  /\ \E failed \in BOOLEAN :
       LET locChunks == IF failed THEN <<>>
                        ELSE locPageRows(body.filename, pageNumberFallbackOf(body.page),
                                         body.orgUrl)
       IN issueFallback(answered(IF failed THEN "error" ELSE "ok", locChunks))

\* The loc.pageNumber query returns; its error is not read.
Tier2Return ==
  /\ pc = "tier2"
  /\ \E failed \in BOOLEAN :
       LET locChunks == IF failed THEN <<>>
                        ELSE locPageRows(body.filename, pageNumberFallbackOf(body.page),
                                         body.orgUrl)
           qs == answered(IF failed THEN "error" ELSE "ok", locChunks)
       IN IF locChunks # <<>> THEN afterLocate(locChunks, qs) ELSE issueFallback(qs)

\* The page-less query without the early return for an empty candidate set.
Tier3Return_NoEmptyReturn ==
  /\ pc = "tier3"
  /\ \E failed \in BOOLEAN :
       LET fallbackData == IF failed THEN <<>>
                           ELSE fallbackRows(body.filename, body.orgUrl)
       IN afterLocate(fallbackData, answered(IF failed THEN "error" ELSE "ok", fallbackData))

\* The page-less query returns; its error is not read.
Tier3Return ==
  /\ pc = "tier3"
  /\ \E failed \in BOOLEAN :
       LET fallbackData == IF failed THEN <<>>
                           ELSE fallbackRows(body.filename, body.orgUrl)
           qs == answered(IF failed THEN "error" ELSE "ok", fallbackData)
       IN IF fallbackData = <<>>
          THEN Send(OkResponse(NoHighlight, <<>>), <<>>, qs, <<>>, NoLlmOut, NoHighlight)
          ELSE afterLocate(fallbackData, qs)

\* llm.invoke settles: the parse and the validation gate inside the try,
\* then the rest of the handler.
llmSettles(out) ==
  LET res == llmHighlight(revision, out, chunks)
  IN IF revision = "LlmFirst"
     THEN finishLlmFirst(chunks, queries, stages, out, res)
     ELSE Send(OkResponse(res, chunks), chunks, queries, stages, out, res)

LlmReturn ==
  /\ pc = "llm"
  /\ \E out \in LlmOutputs(Len(chunks)) : llmSettles(out)

Next == Receive \/ Tier1Return \/ Tier2Return \/ Tier3Return \/ LlmReturn

Spec == Init /\ [][Next]_vars

\* ------------------------------------------------------------------ the direct matcher on its own

\* Contents of the chunks handed to the matcher; hasContent FALSE is null.
DmContents ==
  { [hasContent |-> FALSE, content |-> <<>>],
    [hasContent |-> TRUE, content |-> <<"A", " ", "_", "a">>],
    [hasContent |-> TRUE, content |-> <<"a", "-", "A">>],
    [hasContent |-> TRUE, content |-> <<"_", "a", "~">>],
    [hasContent |-> TRUE, content |-> <<"~", " ", "A">>],
    [hasContent |-> TRUE, content |-> <<"a", "a">>] }

\* Chunk lists of up to MaxChunks chunks; the chunk at position i has id 100 + i.
DmChunkLists ==
  UNION { { [i \in 1..n |-> Chunk(100 + i, f[i].hasContent, f[i].content,
                                  "a.pdf", <<"5">>, NoPage, "acme")]
            : f \in [1..n -> DmContents] }
          : n \in 0..MaxChunks }

HandlerIdle ==
  /\ revision = "LlmFirst"
  /\ body = [filename |-> Absent, page |-> Page("undefined", 0, <<>>),
             answerSnippet |-> Snippet("string", <<>>), orgUrl |-> Absent]
  /\ env = [supabase |-> FALSE, openai |-> FALSE]
  /\ pc = "idle"
  /\ chunks = <<>>
  /\ queries = <<>>
  /\ stages = <<>>
  /\ llmOut = NoLlmOut
  /\ llmStage = NoHighlight
  /\ response = NoResponse

InitDirect ==
  /\ HandlerIdle
  /\ \E r \in Revisions, cs \in DmChunkLists, sn \in StrUpTo(MaxSnippetLen) :
       dm = [pc |-> "call", revision |-> r, chunks |-> cs, snippet |-> sn,
             result |-> NoHighlight]
  /\ nf = NfIdle
  /\ ClientIdle
  /\ ConcIdle
  /\ viewer = NoPdfViewer
  /\ ingest = NoIngest

\* findDirectMatch(chunks, snippet) returns.
DirectMatch ==
  /\ dm.pc = "call"
  /\ dm' = [dm EXCEPT !.pc = "return",
                      !.result = directMatchOf(dm.revision, dm.chunks, dm.snippet)]
  /\ UNCHANGED notDirect

NextDirect == DirectMatch

SpecDirect == InitDirect /\ [][NextDirect]_vars

\* ------------------------------------------------------------------ normalizer

MaxNormLen == 4

InitNormalize ==
  /\ HandlerIdle
  /\ dm = DmIdle
  /\ ClientIdle
  /\ ConcIdle
  /\ viewer = NoPdfViewer
  /\ ingest = NoIngest
  /\ \E s \in StrUpTo(MaxNormLen) :
       nf = [pc |-> "call", value |-> s, once |-> <<>>, twice |-> <<>>]

\* normalizeForComparison(value) returns.
Normalize ==
  /\ nf.pc = "call"
  /\ nf' = [nf EXCEPT !.pc = "again", !.once = normalizeForComparison(nf.value)]
  /\ UNCHANGED notNormalize

\* normalizeForComparison returns for the result of the first call.
NormalizeAgain ==
  /\ nf.pc = "again"
  /\ nf' = [nf EXCEPT !.pc = "done", !.twice = normalizeForComparison(nf.once)]
  /\ UNCHANGED notNormalize

NextNormalize == Normalize \/ NormalizeAgain

SpecNormalize == InitNormalize /\ [][NextNormalize]_vars

\* ------------------------------------------------------------------ chat page

MaxInFlight == 2

\* The citations the user can click: a source and a page. Each has a button
\* of its own, and two buttons can cite the same page.
Citations ==
  { [source |-> "a.pdf", page |-> 1], [source |-> "a.pdf", page |-> 2],
    [source |-> "b.pdf", page |-> 1] }

\* The values of highlight.text and of a chunk's text.
Texts ==
  {Undefined}
    \cup {Defined(t) : t \in {<<>>, <<" ">>, <<" ", "a", "_">>, <<"A", "-", "A", "A">>}}

\* The bodies a 2xx response can carry: highlight is null or has a text,
\* chunks is missing or a list.
HighlightApiResponses ==
  [highlight : {Undefined} \cup {Defined(t) : t \in Texts},
   chunks : {Undefined} \cup {Defined(l) : l \in UNION {[1..n -> Texts] : n \in 0..2}}]

\* typeof text === 'string' && text.trim().length > 0
isFallbackText(text) == text.defined /\ trim(text.value) # <<>>

valueOf(text) == text.value

\* data.chunks?.map(chunk => chunk.text).filter(...) ?? [], then undefined when
\* nothing is left.
fallbackChunksOf(data) ==
  LET kept == IF data.chunks.defined
              THEN SelectSeq(data.chunks.value, isFallbackText) ELSE <<>>
      rawFallback == [i \in 1..Len(kept) |-> valueOf(kept[i])]
  IN IF Len(rawFallback) > 0 THEN Defined(rawFallback) ELSE Undefined

\* data.highlight?.text?.trim()
highlightTextOf(data) ==
  IF data.highlight.defined /\ data.highlight.value.defined
  THEN Defined(trim(data.highlight.value.value))
  ELSE Undefined

\* if (highlightText)
truthyText(text) == text.defined /\ text.value # <<>>

\* The viewer state after a 2xx response with body data for the call c.
viewerAfter(c, data) ==
  LET fallbackChunks == fallbackChunksOf(data)
      highlightText == highlightTextOf(data)
  IN IF truthyText(highlightText)
     THEN [open |-> TRUE, filename |-> c.source, page |-> c.page,
           highlightSnippets |-> Defined(<<highlightText.value>>),
           fallbackChunks |-> fallbackChunks]
     ELSE IF fallbackChunks.defined
          THEN [open |-> TRUE, filename |-> c.source, page |-> c.page,
                highlightSnippets |-> Undefined, fallbackChunks |-> fallbackChunks]
          ELSE pdfViewerState

\* What the response did for the viewer.
outcomeOf(data) ==
  IF truthyText(highlightTextOf(data)) THEN "highlight"
  ELSE IF fallbackChunksOf(data).defined THEN "fallback" ELSE "nothing"

\* The calls in flight once the user has clicked the citation c: each is
\* marked as followed by a user action and as superseded by c.
supersededBy(c) ==
  [i \in 1..Len(fetches) |->
     [fetches[i] EXCEPT !.disturbed = TRUE, !.closed = FALSE, !.by = c]]

\* The calls in flight once the user has closed the viewer.
closedAll ==
  [i \in 1..Len(fetches) |-> [fetches[i] EXCEPT !.disturbed = TRUE, !.closed = TRUE]]

without(i) == SubSeq(fetches, 1, i - 1) \o SubSeq(fetches, i + 1, Len(fetches))

InitClient ==
  /\ HandlerIdle
  /\ dm = DmIdle
  /\ nf = NfIdle
  /\ ClientIdle
  /\ ConcIdle
  /\ viewer = NoPdfViewer
  /\ ingest = NoIngest

\* handleShowSource up to its await fetch: the viewer opens on the citation.
\* alone records that no earlier call was in flight, disturbed that the user
\* has clicked a citation or closed the viewer since, closed that the last
\* such action was closing the viewer, by the citation clicked last.
ShowSource ==
  /\ Len(fetches) < MaxInFlight
  /\ \E c \in Citations :
       /\ pdfViewerState' = [open |-> TRUE, filename |-> c.source, page |-> c.page,
                             highlightSnippets |-> Undefined,
                             fallbackChunks |-> Undefined]
       /\ fetches' = Append(supersededBy(c),
                            [source |-> c.source, page |-> c.page, pc |-> "fetch",
                             alone |-> fetches = <<>>, disturbed |-> FALSE,
                             closed |-> FALSE, by |-> c])
  /\ settled' = NoSettled
  /\ UNCHANGED notClient

\* await fetch settles: it rejects, or resolves with a response that is ok
\* or not.
FetchSettles ==
  \E i \in 1..Len(fetches) :
    /\ fetches[i].pc = "fetch"
    /\ \/ /\ fetches' = [fetches EXCEPT ![i].pc = "json"]
          /\ settled' = NoSettled
       \/ /\ \E o \in {"rejected", "notOk"} :
               settled' = [outcome |-> o, call |-> fetches[i]]
          /\ fetches' = without(i)
    /\ UNCHANGED <<notClient, pdfViewerState>>

\* await response.json() settles, and handleShowSource runs to its end.
JsonSettles ==
  \E i \in 1..Len(fetches) :
    /\ fetches[i].pc = "json"
    /\ \/ /\ settled' = [outcome |-> "badJson", call |-> fetches[i]]
          /\ UNCHANGED pdfViewerState
       \/ \E data \in HighlightApiResponses :
            /\ pdfViewerState' = viewerAfter(fetches[i], data)
            /\ settled' = [outcome |-> outcomeOf(data), call |-> fetches[i]]
    /\ fetches' = without(i)
    /\ UNCHANGED notClient

\* closePdfViewer
ClosePdfViewer ==
  /\ pdfViewerState.open
  /\ pdfViewerState' = NoViewer
  /\ fetches' = closedAll
  /\ settled' = NoSettled
  /\ UNCHANGED notClient

NextClient == ShowSource \/ FetchSettles \/ JsonSettles \/ ClosePdfViewer

SpecClient == InitClient /\ [][NextClient]_vars

\* ------------------------------------------------------------------ concurrent requests

MaxConcurrent == 2

\* The requests sent concurrently: pages found by the first, the second and
\* the third query, the last for another tenant, and a null snippet.
ConcurrentBodies ==
  { [filename |-> "a.pdf", page |-> Page("number", 5, <<>>),
     answerSnippet |-> Snippet("string", <<"a", "~", "a">>), orgUrl |-> "acme"],
    [filename |-> "a.pdf", page |-> Page("number", 6, <<>>),
     answerSnippet |-> Snippet("string", <<"a", " ", "a">>), orgUrl |-> "acme"],
    [filename |-> "b.pdf", page |-> Page("number", 7, <<>>),
     answerSnippet |-> Snippet("string", <<"a", "a">>), orgUrl |-> "other"],
    [filename |-> "a.pdf", page |-> Page("number", 5, <<>>),
     answerSnippet |-> Snippet("null", <<>>), orgUrl |-> "acme"] }

\* The queries, by tier, that the chunk store fails.
StoreOutages == {{}, {1}, {2, 3}}

\* LLMs that answer a prompt the same way each time: one that gives the same
\* output for every prompt, and one that quotes the snippet from the last chunk.
LlmBehaviours ==
  {[kind |-> "same", out |-> o] :
     o \in {LlmOut("throw", FALSE, 0, FALSE, <<>>), LlmOut("json", TRUE, 0, TRUE, <<"a">>)}}
    \cup {[kind |-> "echo", out |-> NoLlmOut]}

\* llm.invoke for the prompt built from snippet and cs.
llmAnswer(behaviour, snippet, cs) ==
  IF behaviour.kind = "echo"
  THEN LlmOut("json", TRUE, 2 * (Len(cs) - 1), TRUE,
              IF snippet.type = "string" THEN snippet.str ELSE <<>>)
  ELSE behaviour.out

\* The locals of one invocation of POST.
Context(b, p, cs, qs, st, out, llm, resp) ==
  [body |-> b, pc |-> p, chunks |-> cs, queries |-> qs, stages |-> st,
   llmOut |-> out, llmStage |-> llm, response |-> resp]

\* The locals of the request the event loop is running.
running == Context(body, pc, chunks, queries, stages, llmOut, llmStage, response)

requests == <<running>> \o parked

inFlight(c) == c.pc \notin {"start", "done"}

\* The queries answered so far failed or not as the oracle says.
oracleObeyed ==
  \A i \in 1..Len(queries) :
    queries[i].outcome # "pending" =>
      (queries[i].outcome = "error" <=> queries[i].tier \in oracle.down)

InitConcurrent ==
  /\ revision \in Revisions
  /\ env \in Envs
  /\ body \in ConcurrentBodies
  /\ pc = "start"
  /\ chunks = <<>>
  /\ queries = <<>>
  /\ stages = <<>>
  /\ llmOut = NoLlmOut
  /\ llmStage = NoHighlight
  /\ response = NoResponse
  /\ dm = DmIdle
  /\ nf = NfIdle
  /\ ClientIdle
  /\ parked \in [1..MaxConcurrent - 1 ->
                   {Context(b, "start", <<>>, <<>>, <<>>, NoLlmOut, NoHighlight, NoResponse)
                      : b \in ConcurrentBodies}]
  /\ oracle \in [down : StoreOutages, llm : LlmBehaviours]
  /\ overlap = FALSE
  /\ viewer = NoPdfViewer
  /\ ingest = NoIngest

\* The event loop going on with another request, its candidate set left as
\* the one of the request that ran before.
Switch_SharedChunks ==
  \E i \in 1..Len(parked) :
    /\ body' = parked[i].body
    /\ pc' = parked[i].pc
    /\ chunks' = chunks
    /\ queries' = parked[i].queries
    /\ stages' = parked[i].stages
    /\ llmOut' = parked[i].llmOut
    /\ llmStage' = parked[i].llmStage
    /\ response' = parked[i].response
    /\ parked' = [parked EXCEPT ![i] = running]
    /\ overlap' = (overlap \/ (inFlight(running) /\ inFlight(parked[i])))
    /\ UNCHANGED <<revision, env, dm, nf, clientVars, oracle, viewer, ingest>>

\* At an await the event loop goes on with another request: the locals of
\* the running invocation stay in its closure, those of the other come back.
Switch ==
  \E i \in 1..Len(parked) :
    /\ body' = parked[i].body
    /\ pc' = parked[i].pc
    /\ chunks' = parked[i].chunks
    /\ queries' = parked[i].queries
    /\ stages' = parked[i].stages
    /\ llmOut' = parked[i].llmOut
    /\ llmStage' = parked[i].llmStage
    /\ response' = parked[i].response
    /\ parked' = [parked EXCEPT ![i] = running]
    /\ overlap' = (overlap \/ (inFlight(running) /\ inFlight(parked[i])))
    /\ UNCHANGED <<revision, env, dm, nf, clientVars, oracle, viewer, ingest>>

\* A query of the running request is answered by the store.
StoreAnswers == (Tier1Return \/ Tier2Return \/ Tier3Return) /\ oracleObeyed'

\* The LLM call of the running request is answered as the oracle says.
LlmAnswers ==
  /\ pc = "llm"
  /\ llmSettles(llmAnswer(oracle.llm, body.answerSnippet, chunks))

NextConcurrent == Receive \/ StoreAnswers \/ LlmAnswers \/ Switch

SpecConcurrent == InitConcurrent /\ [][NextConcurrent]_vars

\* POST from a non-empty candidate set cs to its response, for the request b
\* run from start to end with nothing in between.
aloneLocate(rev, e, b, orc, cs) ==
  LET sn == b.answerSnippet
      llmRes == llmHighlight(rev, llmAnswer(orc.llm, sn, cs), cs)
  IN IF rev = "LlmFirst"
     THEN IF e.openai /\ llmRes.found THEN OkResponse(llmRes, cs)
          ELSE IF sn.type # "string" THEN InternalError
          ELSE OkResponse(findDirectMatch(cs, sn.str), cs)
     ELSE IF truthySnippet(sn) /\ sn.type # "string" THEN InternalError
          ELSE LET directMatch == IF truthySnippet(sn)
                                  THEN findDirectMatchRoute(cs, sn.str)
                                  ELSE NoHighlight
               IN IF directMatch.found THEN OkResponse(directMatch, cs)
                  ELSE IF truthySnippet(sn) /\ e.openai THEN OkResponse(llmRes, cs)
                  ELSE OkResponse(NoHighlight, cs)

\* The response of POST to the request b run alone.
aloneResponse(rev, e, b, orc) ==
  LET data == exactPageRows(b.filename, pageValueOf(b.page), b.orgUrl)
      pageNumberFallback == pageNumberFallbackOf(b.page)
      locChunks == IF rev = "LlmFirst" /\ pageNumberFallback # <<>> /\ 2 \notin orc.down
                   THEN locPageRows(b.filename, pageNumberFallback, b.orgUrl)
                   ELSE <<>>
      fallbackData == IF 3 \in orc.down THEN <<>>
                      ELSE fallbackRows(b.filename, b.orgUrl)
      cs == IF data # <<>> THEN data
            ELSE IF locChunks # <<>> THEN locChunks ELSE fallbackData
  IN IF rev = "LlmFirst" /\ b.answerSnippet.type = "number" THEN InternalError
     ELSE IF missingFilename(b.filename) \/ b.page.type = "undefined"
     THEN ErrorResponse(400, "filename and page are required")
     ELSE IF ~e.supabase THEN ErrorResponse(500, "Missing Supabase configuration")
     ELSE IF 1 \in orc.down THEN ErrorResponse(500, "Failed to fetch chunks")
     ELSE IF cs = <<>> THEN OkResponse(NoHighlight, <<>>)
     ELSE aloneLocate(rev, e, b, orc, cs)

\* ------------------------------------------------------------------ PdfViewer

\* const normalize = (text) => text.replace(/\s+/g, ' ').trim().toLowerCase()
normalize(text) == lowerCase(trim(collapseWhitespace(text)))

\* numPages of the documents: a.pdf has two pages, b.pdf one.
pagesOf(filename) == IF filename = "a.pdf" THEN 2 ELSE 1

\* The text of the spans of the text layer of a page.
textLayerOf(filename, pageNumber) ==
  IF filename = "a.pdf" /\ pageNumber = 1
  THEN << <<"a", "-", "A", "a">>, <<" ">>, <<"a", "a">>, <<"A", "-", "a", "a">> >>
  ELSE << <<"a", "a">> >>

\* list && list.length > 0
nonEmptyList(list) == list.defined /\ list.value # <<>>

\* The inner loop of highlightSnippet from span j on: the spans collected
\* when the combined text has reached the snippet's length, and whether it
\* includes the snippet.
RECURSIVE spanSequence(_, _, _, _, _)
spanSequence(spans, j, seq, combinedText, normalizedSnippet) ==
  IF j > Len(spans) THEN [hit |-> FALSE, seq |-> {}]
  ELSE LET normalizedSpan == normalize(spans[j])
       IN IF normalizedSpan = <<>>
          THEN spanSequence(spans, j + 1, seq, combinedText, normalizedSnippet)
          ELSE LET combined == trim(combinedText \o <<" ">> \o normalizedSpan)
               IN IF Len(combined) >= Len(normalizedSnippet)
                  THEN [hit |-> includes(combined, normalizedSnippet),
                        seq |-> seq \cup {j}]
                  ELSE spanSequence(spans, j + 1, seq \cup {j}, combined,
                                    normalizedSnippet)

\* The spans whose normalized text is longer than 3 and is part of text.
partOf(spans, text) ==
  {k \in 1..Len(spans) :
     Len(normalize(spans[k])) > 3 /\ includes(text, normalize(spans[k]))}

\* highlightSnippet: the set highlighted after it.
highlightSnippet(spans, highlighted, snippet) ==
  LET normalizedSnippet == normalize(snippet)
      starts == {i \in 1..Len(spans) :
                   spanSequence(spans, i, {}, <<>>, normalizedSnippet).hit}
  IN IF normalizedSnippet = <<>> THEN highlighted
     ELSE IF starts # {}
     THEN LET i == CHOOSE x \in starts : \A y \in starts : x <= y
          IN highlighted \cup spanSequence(spans, i, {}, <<>>, normalizedSnippet).seq
     ELSE highlighted \cup partOf(spans, normalizedSnippet)

\* highlightChunk: the set highlighted after it.
highlightChunk(spans, highlighted, chunk) ==
  LET normalizedChunk == normalize(chunk)
  IN IF normalizedChunk = <<>> THEN highlighted
     ELSE highlighted \cup partOf(spans, normalizedChunk)

\* highlightSnippets.forEach(highlightSnippet)
RECURSIVE forEachSnippet(_, _, _)
forEachSnippet(spans, highlighted, snippets) ==
  IF snippets = <<>> THEN highlighted
  ELSE forEachSnippet(spans, highlightSnippet(spans, highlighted, Head(snippets)),
                      Tail(snippets))

\* fallbackChunks.forEach(highlightChunk)
RECURSIVE forEachChunk(_, _, _)
forEachChunk(spans, highlighted, fallbackChunks) ==
  IF fallbackChunks = <<>> THEN highlighted
  ELSE forEachChunk(spans, highlightChunk(spans, highlighted, Head(fallbackChunks)),
                    Tail(fallbackChunks))

\* highlightTextLayer keeping the styling the spans already have.
highlightTextLayer_NoReset(highlightSnippets, fallbackChunks, spans, styled) ==
  IF nonEmptyList(highlightSnippets)
  THEN styled \cup forEachSnippet(spans, {}, highlightSnippets.value)
  ELSE IF nonEmptyList(fallbackChunks)
       THEN styled \cup forEachChunk(spans, {}, fallbackChunks.value)
       ELSE styled

\* highlightTextLayer when the text layer is there: the spans styled after
\* it, given those styled before.
highlightTextLayer(highlightSnippets, fallbackChunks, spans, styled) ==
  IF ~nonEmptyList(highlightSnippets) /\ ~nonEmptyList(fallbackChunks) THEN styled
  ELSE IF nonEmptyList(highlightSnippets)
       THEN forEachSnippet(spans, {}, highlightSnippets.value)
       ELSE forEachChunk(spans, {}, fallbackChunks.value)

\* The component has rendered the parent's current state.
rendered ==
  /\ viewer.mounted = pdfViewerState.open
  /\ viewer.filename = pdfViewerState.filename
  /\ viewer.initialPage = pdfViewerState.page
  /\ viewer.highlightSnippets = pdfViewerState.highlightSnippets
  /\ viewer.fallbackChunks = pdfViewerState.fallbackChunks

\* The effect on [highlightSnippets, fallbackChunks, pageNumber] sets the timer.
timerSet(highlightSnippets, fallbackChunks) ==
  nonEmptyList(highlightSnippets) \/ nonEmptyList(fallbackChunks)

\* setPageNumber(n): a new page has a new text layer, and the effect runs again.
withPageNumber(v, n) ==
  IF n = v.pageNumber THEN v
  ELSE [v EXCEPT !.pageNumber = n, !.layer = FALSE, !.styled = {},
                 !.timer = timerSet(v.highlightSnippets, v.fallbackChunks)]

\* React renders PdfViewer with the parent's state and runs its effects.
Render ==
  /\ ~rendered
  /\ viewer' =
       IF ~pdfViewerState.open THEN NoPdfViewer
       ELSE IF ~viewer.mounted
       THEN [mounted |-> TRUE, filename |-> pdfViewerState.filename,
             initialPage |-> pdfViewerState.page,
             highlightSnippets |-> pdfViewerState.highlightSnippets,
             fallbackChunks |-> pdfViewerState.fallbackChunks,
             doc |-> "loading", numPages |-> 0, pageNumber |-> pdfViewerState.page,
             layer |-> FALSE, styled |-> {},
             timer |-> timerSet(pdfViewerState.highlightSnippets,
                                pdfViewerState.fallbackChunks),
             ran |-> FALSE]
       ELSE LET fileChanged == viewer.filename # pdfViewerState.filename
                highlightChanged ==
                  \/ viewer.highlightSnippets # pdfViewerState.highlightSnippets
                  \/ viewer.fallbackChunks # pdfViewerState.fallbackChunks
                props == [viewer EXCEPT
                            !.filename = pdfViewerState.filename,
                            !.initialPage = pdfViewerState.page,
                            !.highlightSnippets = pdfViewerState.highlightSnippets,
                            !.fallbackChunks = pdfViewerState.fallbackChunks,
                            !.doc = IF fileChanged /\ @ # "error" THEN "loading" ELSE @,
                            !.layer = IF fileChanged THEN FALSE ELSE @,
                            !.styled = IF fileChanged THEN {} ELSE @,
                            !.timer = IF highlightChanged
                                      THEN timerSet(pdfViewerState.highlightSnippets,
                                                    pdfViewerState.fallbackChunks)
                                      ELSE @,
                            !.ran = FALSE]
            IN IF viewer.initialPage # pdfViewerState.page
               THEN withPageNumber(props, pdfViewerState.page)
               ELSE props
  /\ UNCHANGED notViewer

\* fetchPdfUrl settles: setPdfUrl or setError.
UrlFetched ==
  /\ rendered /\ viewer.mounted /\ viewer.doc = "loading"
  /\ \E d \in {"url", "error"} : viewer' = [viewer EXCEPT !.doc = d, !.ran = FALSE]
  /\ UNCHANGED notViewer

\* onDocumentLoadSuccess
DocumentLoads ==
  /\ rendered /\ viewer.mounted /\ viewer.doc = "url"
  /\ viewer' = withPageNumber([viewer EXCEPT !.doc = "shown",
                                             !.numPages = pagesOf(viewer.filename),
                                             !.layer = FALSE, !.styled = {},
                                             !.ran = FALSE],
                              viewer.initialPage)
  /\ UNCHANGED notViewer

\* The text layer of the displayed page is rendered.
TextLayerRenders ==
  /\ rendered /\ viewer.doc = "shown" /\ ~viewer.layer
  /\ viewer.pageNumber \in 1..pagesOf(viewer.filename)
  /\ viewer' = [viewer EXCEPT !.layer = TRUE, !.ran = FALSE]
  /\ UNCHANGED notViewer

\* goToPrevPage, from the Previous button.
GoToPrevPage ==
  /\ rendered /\ viewer.mounted /\ viewer.numPages # 0 /\ ~(viewer.pageNumber <= 1)
  /\ viewer' = withPageNumber([viewer EXCEPT !.ran = FALSE],
                              IF viewer.pageNumber - 1 > 1 THEN viewer.pageNumber - 1
                              ELSE 1)
  /\ UNCHANGED notViewer

\* goToNextPage, from the Next button.
GoToNextPage ==
  /\ rendered /\ viewer.mounted /\ viewer.numPages # 0
  /\ ~(viewer.pageNumber >= viewer.numPages)
  /\ viewer' = withPageNumber([viewer EXCEPT !.ran = FALSE],
                              IF viewer.pageNumber + 1 < viewer.numPages
                              THEN viewer.pageNumber + 1 ELSE viewer.numPages)
  /\ UNCHANGED notViewer

\* The 500 ms timer fires: highlightTextLayer.
HighlightTimer ==
  /\ rendered /\ viewer.timer
  /\ viewer' =
       IF ~viewer.layer THEN [viewer EXCEPT !.timer = FALSE, !.ran = FALSE]
       ELSE [viewer EXCEPT
               !.timer = FALSE, !.ran = TRUE,
               !.styled = highlightTextLayer(viewer.highlightSnippets,
                                             viewer.fallbackChunks,
                                             textLayerOf(viewer.filename,
                                                         viewer.pageNumber),
                                             viewer.styled)]
  /\ UNCHANGED notViewer

\* The chat page under the viewer, one citation at a time.
CitationClicked == rendered /\ fetches = <<>> /\ ShowSource

HighlightFetched == rendered /\ FetchSettles

HighlightParsed == rendered /\ JsonSettles

CloseClicked == rendered /\ ClosePdfViewer

NextViewer ==
  \/ CitationClicked \/ HighlightFetched \/ HighlightParsed \/ CloseClicked
  \/ Render \/ UrlFetched \/ DocumentLoads \/ TextLayerRenders
  \/ GoToPrevPage \/ GoToNextPage \/ HighlightTimer

SpecViewer == InitClient /\ [][NextViewer]_vars

\* ------------------------------------------------------------------ POST /api/ingest

\* The rows of document_uploads an ingest can meet: none (the insert of the
\* upload failed), or one left by the upload or by an earlier ingest.
UploadRows ==
  { [status |-> "none", error_message |-> FALSE],
    [status |-> "uploaded", error_message |-> FALSE],
    [status |-> "failed", error_message |-> TRUE] }

InitIngest ==
  /\ HandlerIdle
  /\ dm = DmIdle
  /\ nf = NfIdle
  /\ ClientIdle
  /\ ConcIdle
  /\ viewer = NoPdfViewer
  /\ \E f \in {Absent, "", "a.pdf"}, e \in Envs, r \in UploadRows :
       ingest = [pc |-> "start", filename |-> f, env |-> e, row |-> r,
                 hadRow |-> r.status # "none", validated |-> FALSE,
                 writes |-> <<>>, response |-> 0]

\* await supabaseClient.from('document_uploads').update(values).eq('filename',
\* filename) settles: the row, if there is one, takes the status unless the
\* store fails; the error it returns is not read.
updated(status, message, ok, npc, resp) ==
  LET written == ok /\ ingest.row.status # "none"
  IN ingest' = [ingest EXCEPT
                  !.pc = npc, !.response = resp,
                  !.row = IF written
                          THEN [status |-> status,
                                error_message |-> message \/ @.error_message]
                          ELSE @,
                  !.writes = IF written THEN Append(@, status) ELSE @]

\* POST up to its first await after the body: the two guards; a body that is
\* not JSON goes to the catch with filename undefined.
IngestReceive ==
  /\ ingest.pc = "start"
  /\ \/ ingest' = [ingest EXCEPT !.pc = "done", !.response = 500]
     \/ ingest' =
          IF ingest.filename = Absent \/ ingest.filename = ""
          THEN [ingest EXCEPT !.pc = "done", !.response = 400]
          ELSE IF ~ingest.env.supabase \/ ~ingest.env.openai
          THEN [ingest EXCEPT !.pc = "done", !.response = 500]
          ELSE [ingest EXCEPT !.pc = "processing", !.validated = TRUE]
  /\ UNCHANGED notIngest

\* The update to 'processing' settles.
UpdateProcessing ==
  /\ ingest.pc = "processing"
  /\ \E ok \in BOOLEAN : updated("processing", FALSE, ok, "load", 0)
  /\ UNCHANGED notIngest

\* await loader.load() settles: it throws, or gives no section, or some.
Load ==
  /\ ingest.pc = "load"
  /\ \E npc \in {"catch", "nocontent", "split"} : ingest' = [ingest EXCEPT !.pc = npc]
  /\ UNCHANGED notIngest

\* The update to 'failed' for a PDF without content settles; 400.
UpdateNoContent ==
  /\ ingest.pc = "nocontent"
  /\ \E ok \in BOOLEAN : updated("failed", TRUE, ok, "done", 400)
  /\ UNCHANGED notIngest

\* await splitter.splitDocuments(docs) settles.
Split ==
  /\ ingest.pc = "split"
  /\ \E npc \in {"catch", "store"} : ingest' = [ingest EXCEPT !.pc = npc]
  /\ UNCHANGED notIngest

\* await SupabaseVectorStore.fromDocuments(...) settles.
StoreDocuments ==
  /\ ingest.pc = "store"
  /\ \E npc \in {"catch", "completed"} : ingest' = [ingest EXCEPT !.pc = npc]
  /\ UNCHANGED notIngest

\* The update to 'completed' settles; 200.
UpdateCompleted ==
  /\ ingest.pc = "completed"
  /\ \E ok \in BOOLEAN : updated("completed", FALSE, ok, "done", 200)
  /\ UNCHANGED notIngest

\* The catch block: the update to 'failed' settles; 500.
UpdateFailed ==
  /\ ingest.pc = "catch"
  /\ \E ok \in BOOLEAN : updated("failed", TRUE, ok, "done", 500)
  /\ UNCHANGED notIngest

NextIngest ==
  \/ IngestReceive \/ UpdateProcessing \/ Load \/ UpdateNoContent
  \/ Split \/ StoreDocuments \/ UpdateCompleted \/ UpdateFailed

SpecIngest == InitIngest /\ [][NextIngest]_vars

\* ------------------------------------------------------------------ claims

Done == pc = "done"

LlmRan == llmOut.kind # "none"

\* text is a normalized substring of the content of the chunk of cs with this id.
validatedIn(cs, text, chunkId) ==
  \E i \in 1..Len(cs) :
    /\ cs[i].id = chunkId
    /\ includes(normalizeForComparison(contentOf(cs[i])), normalizeForComparison(text))

\* C1: the LLM stage yields a highlight only for an integer chunkIndex in
\* range whose exactText is a string that is a normalized substring of the
\* content of candidates[chunkIndex], and then it is {exactText, that chunk's
\* id}; every other LLM output leaves the stage null, and a highlight of a
\* 200 response is always a normalized substring of the chunk it names.
ValidationGate ==
  Done /\ LlmRan =>
    /\ llmStage.found =>
         /\ llmOut.kind = "json" /\ llmOut.idxIsNum /\ llmOut.textIsStr
         /\ llmOut.idx2 % 2 = 0
         /\ llmOut.idx2 >= 0 /\ llmOut.idx2 < 2 * Len(chunks)
         /\ includes(normalizeForComparison(contentOf(chunks[(llmOut.idx2 \div 2) + 1])),
                     normalizeForComparison(llmOut.text))
         /\ llmStage = Highlight(llmOut.text, chunks[(llmOut.idx2 \div 2) + 1].id)
    /\ response.status = 200 /\ response.highlight.found =>
         validatedIn(chunks, response.highlight.text, response.highlight.chunkId)

\* The LLM stage accepted a span that is in the chunk only after
\* normalization, and it is the highlight of the response.
ValidationGateWitness ==
  /\ Done /\ LlmRan /\ llmStage.found
  /\ response.highlight = llmStage
  /\ \E i \in 1..Len(chunks) :
       /\ chunks[i].id = llmStage.chunkId
       /\ ~includes(contentOf(chunks[i]), llmStage.text)

\* C2: when findDirectMatch returns {text, chunkId}, normalize(text) is a
\* substring of normalize(content) of the chunk with that id, for the regex
\* match and for the cleaned-snippet fallback.
DirectMatchSound ==
  dm.pc = "return" /\ dm.result.found =>
    validatedIn(dm.chunks, dm.result.text, dm.result.chunkId)

\* The matcher returned the cleaned snippet because the regex found nothing
\* in the raw content of the chunk that passed the normalized test.
DirectMatchSoundWitness ==
  /\ dm.pc = "return" /\ dm.result.found
  /\ dm.result.text = trim(dm.snippet)
  /\ \E i \in 1..Len(dm.chunks) :
       /\ dm.chunks[i].id = dm.result.chunkId
       /\ ~regexMatch(contentOf(dm.chunks[i]), buildPattern(trim(dm.snippet))).found

\* The rows of the query that ended the chunk lookup.
lastRows == IF queries = <<>> THEN <<>> ELSE queries[Len(queries)].rows

\* C3: when the lookup ended with N >= 1 candidates, the chunks of the 200
\* response are exactly those N, in the same order and with the same ids,
\* whatever the highlight and whatever became of the LLM call.
FallbackComplete ==
  Done /\ response.status = 200 /\ lastRows # <<>> =>
    /\ Len(response.chunks) = Len(lastRows)
    /\ \A i \in 1..Len(lastRows) : response.chunks[i].id = lastRows[i].id

\* A 200 response with no highlight after a failed LLM call, carrying several
\* candidates, one of them with null content.
FallbackCompleteWitness ==
  /\ Done /\ response.status = 200 /\ ~response.highlight.found
  /\ llmOut.kind = "throw"
  /\ Len(lastRows) >= 2 /\ Len(response.chunks) = Len(lastRows)
  /\ \E i \in 1..Len(response.chunks) : response.chunks[i].text = <<>>

pageMissing == body.page.type \in {"undefined", "null"}

storeFailed == \E i \in 1..Len(queries) : queries[i].outcome = "error"

\* C4: a request ends in a 4xx/5xx only if filename or page is missing or the
\* chunk store is unconfigured or failed; every other request, whatever the
\* type of answerSnippet and whatever the LLM did, gets a 200.
ErrorEscalationPolicy ==
  Done /\ response.status # 200 =>
    \/ missingFilename(body.filename) \/ pageMissing
    \/ ~env.supabase \/ storeFailed

llmFailed == llmOut.kind \in {"throw", "empty", "nobrace", "badjson"}

directFinds ==
  /\ body.answerSnippet.type = "string"
  /\ directMatchOf(revision, chunks, body.answerSnippet.str).found

\* C5: when the LLM call throws or its output cannot be parsed, the request
\* still gets a 200 with the full chunks list; its highlight is the direct
\* match when the matcher finds the snippet in a candidate, and null otherwise.
LlmFailureNonFatal ==
  Done /\ llmFailed =>
    /\ response.status = 200
    /\ Len(response.chunks) = Len(chunks)
    /\ response.highlight.found <=> directFinds

\* C6: a request one of whose chunk-store queries returned an error is
\* answered with a 5xx, never with a 200.
ChunkStoreFailureFatal ==
  Done /\ storeFailed => response.status >= 500

\* C7: a request without filename (missing or empty) or without page (absent
\* or null) gets the 400 "filename and page are required", and no chunk-store
\* query and no matching stage is run for it.
RequiredInputValidation ==
  Done /\ (missingFilename(body.filename) \/ pageMissing) =>
    /\ response = ErrorResponse(400, "filename and page are required")
    /\ queries = <<>>
    /\ stages = <<>>

\* C8: a query is issued only after every earlier query of the request came
\* back with no chunk, tiers are tried in order, and the candidate set is the
\* result of the one query that returned chunks: tier 1 with chunks means no
\* tier 2 and no tier 3, tier 2 with chunks means no tier 3.
MonotonicFallback ==
  /\ \A i \in 1..Len(queries) :
       /\ i < Len(queries) =>
            /\ queries[i].outcome # "pending"
            /\ queries[i].rows = <<>>
            /\ queries[i].tier < queries[i + 1].tier
       /\ queries[i].rows # <<>> => i = Len(queries)
  /\ pc \in {"llm", "done"} => chunks = lastRows

\* The exact-page query returned chunks and was the only query of the request.
MonotonicFallbackWitness ==
  /\ Done /\ response.status = 200
  /\ Len(queries) = 1 /\ queries[1].tier = 1 /\ queries[1].rows # <<>>
  /\ chunks = queries[1].rows

pageHasDigits ==
  \/ body.page.type = "number"
  \/ body.page.type = "string" /\ firstDigits(body.page.str) # <<>>

\* C9: after an exact-page query that returned no chunk, a page that is a
\* number or a string with digits is retried on metadata.loc.pageNumber with
\* the extracted digits and the same filename and org filter, and chunks from
\* that retry are the candidate set, with no page-less query; a page without
\* digits skips the retry.
TierTwoRetry ==
  Len(queries) >= 1 /\ queries[1].outcome = "ok" /\ queries[1].rows = <<>> =>
    IF pageHasDigits
    THEN /\ Len(queries) >= 2
         /\ queries[2].tier = 2 /\ queries[2].field = "loc.pageNumber"
         /\ queries[2].value = pageNumberFallbackOf(body.page)
         /\ queries[2].filename = queries[1].filename
         /\ queries[2].orgUrl = queries[1].orgUrl
         /\ queries[2].rows # <<>> =>
              /\ Len(queries) = 2
              /\ pc \in {"llm", "done"} => chunks = queries[2].rows
    ELSE \A i \in 1..Len(queries) : queries[i].tier # 2

orgSupplied == body.orgUrl # Absent /\ body.orgUrl # ""

\* C10: for a request with a (non-empty) orgUrl, every chunk of the 200
\* response is a row whose metadata.source is the requested filename and
\* whose metadata.orgUrl is the requested orgUrl, whichever tier found it,
\* and the highlight names one of these chunks.
TenantScoped ==
  Done /\ response.status = 200 /\ orgSupplied =>
    /\ \A i \in 1..Len(response.chunks) :
         \E r \in 1..Len(Store) :
           /\ Store[r].id = response.chunks[i].id
           /\ Store[r].source = body.filename
           /\ Store[r].orgUrl = body.orgUrl
    /\ response.highlight.found =>
         \E i \in 1..Len(response.chunks) :
           response.chunks[i].id = response.highlight.chunkId

\* The page-less query answered for an organization while the table holds a
\* chunk of the same file that belongs to another organization.
TenantScopedWitness ==
  /\ Done /\ response.status = 200 /\ orgSupplied
  /\ queries[Len(queries)].tier = 3 /\ response.chunks # <<>>
  /\ response.highlight.found
  /\ \E r \in 1..Len(Store) :
       Store[r].source = body.filename /\ Store[r].orgUrl # body.orgUrl

\* C11: when the exact-page query succeeded and no query of the request
\* returned a chunk, the response is the 200 {highlight: null, chunks: []}
\* and neither the LLM call nor the direct matcher was run.
EmptyCandidatesTerminal ==
  Done /\ queries # <<>> /\ queries[1].outcome = "ok"
       /\ (\A i \in 1..Len(queries) : queries[i].rows = <<>>) =>
    /\ queries[Len(queries)].tier = 3
    /\ response = OkResponse(NoHighlight, <<>>)
    /\ stages = <<>>
    /\ llmOut = NoLlmOut

\* All three tiers were queried for a request with a snippet and an LLM key,
\* each came back empty, and the empty 200 was sent.
EmptyCandidatesTerminalWitness ==
  /\ Done /\ Len(queries) = 3
  /\ \A i \in 1..3 : queries[i].outcome = "ok" /\ queries[i].rows = <<>>
  /\ env.openai /\ truthySnippet(body.answerSnippet)
  /\ response.status = 200 /\ response.chunks = <<>>

\* C15: a candidate set that comes from the page-less fallback query has at
\* most 8 chunks, and so has the chunks list of the response.
FallbackCapped ==
  queries # <<>> /\ queries[Len(queries)].tier = 3 =>
    /\ Len(queries[Len(queries)].rows) <= FallbackLimit
    /\ Len(chunks) <= FallbackLimit
    /\ Len(response.chunks) <= FallbackLimit

\* The fallback answered with 8 chunks for a file that has more rows.
FallbackCappedWitness ==
  /\ Done /\ response.status = 200
  /\ queries[Len(queries)].tier = 3
  /\ Len(response.chunks) = FallbackLimit
  /\ Cardinality({r \in 1..Len(Store) : Store[r].source = body.filename}) > FallbackLimit

\* C13: the chunkId of a non-null highlight of a 200 response is the id of
\* exactly one entry of the response's chunks, and the highlight text is a
\* normalized substring of that entry's text.
HighlightReferencesChunk ==
  Done /\ response.status = 200 /\ response.highlight.found =>
    /\ Cardinality({i \in 1..Len(response.chunks) :
                      response.chunks[i].id = response.highlight.chunkId}) = 1
    /\ \A i \in 1..Len(response.chunks) :
         response.chunks[i].id = response.highlight.chunkId =>
           includes(normalizeForComparison(response.chunks[i].text),
                    normalizeForComparison(response.highlight.text))

\* The highlight names the second of several chunks of the response, and its
\* text is not in the first.
HighlightReferencesChunkWitness ==
  /\ Done /\ response.status = 200 /\ response.highlight.found
  /\ Len(response.chunks) >= 2
  /\ response.chunks[2].id = response.highlight.chunkId
  /\ ~includes(normalizeForComparison(response.chunks[1].text),
               normalizeForComparison(response.highlight.text))

inSeq(x, seq) == \E i \in 1..Len(seq) : seq[i] = x

\* The LLM stage is skipped: no key, or (DirectFirst) a falsy answerSnippet.
llmSkipped ==
  \/ ~env.openai
  \/ revision = "DirectFirst" /\ ~truthySnippet(body.answerSnippet)

StageShortCircuit ==
  Done /\ chunks # <<>> =>
    IF revision = "LlmFirst"
    THEN /\ inSeq("direct", stages) => ~llmStage.found
         /\ llmStage.found => response = OkResponse(llmStage, chunks)
         /\ ~llmStage.found /\ response.status = 200 =>
              response.highlight = findDirectMatch(chunks, body.answerSnippet.str)
    ELSE /\ inSeq("llm", stages) => stages = <<"direct", "llm">> /\ ~directFinds
         /\ directFinds =>
              /\ ~LlmRan
              /\ response = OkResponse(findDirectMatchRoute(chunks, body.answerSnippet.str),
                                       chunks)
         /\ ~directFinds /\ response.status = 200 => response.highlight = llmStage

\* LlmFirst: the LLM's validated span is the highlight although the direct
\* matcher would have returned a different match.
StageShortCircuitWitness ==
  /\ Done /\ revision = "LlmFirst" /\ llmStage.found
  /\ response.highlight = llmStage /\ stages = <<"llm">>
  /\ directFinds
  /\ findDirectMatch(chunks, body.answerSnippet.str) # llmStage

\* The positions of the chunks of the call whose normalized content contains
\* the normalized snippet.
dmHolders ==
  {i \in 1..Len(dm.chunks) :
     includes(normalizeForComparison(contentOf(dm.chunks[i])),
              normalizeForComparison(dm.snippet))}

dmFirstHolder == CHOOSE i \in dmHolders : \A j \in dmHolders : i <= j

\* C12: findDirectMatch returns null exactly when the snippet normalizes to
\* empty or no chunk's normalized content contains the normalized snippet;
\* when the normalized test passes for a chunk and the regex finds nothing in
\* its raw content, the result is the trimmed snippet with that chunk's id.
DirectMatchComplete ==
  dm.pc = "return" =>
    /\ ~dm.result.found <=>
         (normalizeForComparison(dm.snippet) = <<>> \/ dmHolders = {})
    /\ /\ normalizeForComparison(dm.snippet) # <<>> /\ dmHolders # {}
       /\ ~regexMatch(contentOf(dm.chunks[dmFirstHolder]),
                      buildPattern(trim(dm.snippet))).found
       => dm.result = Highlight(trim(dm.snippet), dm.chunks[dmFirstHolder].id)

\* C17: for a snippet that is empty or normalizes to empty, findDirectMatch
\* returns null whatever the chunks.
EmptySnippetNoMatch ==
  dm.pc = "return" /\ normalizeForComparison(dm.snippet) = <<>> =>
    dm.result = NoHighlight

\* A snippet of white space only was matched against a chunk with content,
\* and the result is null.
EmptySnippetNoMatchWitness ==
  /\ dm.pc = "return" /\ dm.snippet # <<>>
  /\ normalizeForComparison(dm.snippet) = <<>>
  /\ \E i \in 1..Len(dm.chunks) : contentOf(dm.chunks[i]) # <<>>
  /\ ~dm.result.found

\* C20: a match of findDirectMatch names the first chunk, in the order
\* supplied, whose normalized content contains the normalized snippet, never
\* a later one, and never a chunk with null or empty content.
DirectMatchFirstChunk ==
  dm.pc = "return" /\ dm.result.found =>
    /\ dmHolders # {}
    /\ dm.result.chunkId = dm.chunks[dmFirstHolder].id
    /\ contentOf(dm.chunks[dmFirstHolder]) # <<>>

\* C14: normalizing the result of the normalizer gives that result back.
NormalizeIdempotent == nf.pc = "done" => nf.twice = nf.once

\* A string with a white-space run holding an NBSP, a dash variant and a
\* capital was normalized twice, and the first result differs from the input.
NormalizeIdempotentWitness ==
  /\ nf.pc = "done"
  /\ \E i \in 1..Len(nf.value) - 1 : IsSpace(nf.value[i]) /\ nf.value[i + 1] = "_"
  /\ \E i \in 1..Len(nf.value) : nf.value[i] = "~"
  /\ \E i \in 1..Len(nf.value) : nf.value[i] = "A"
  /\ nf.once # nf.value /\ nf.once # <<>>

\* C18: when a call of handleShowSource finishes with no user action since it
\* began, whatever the outcome of the request, the viewer is open on the
\* call's source and page; unless the response carried a highlight text, the
\* viewer has no highlightSnippets.
ViewerSurvivesFailure ==
  settled.outcome # "none" /\ ~settled.call.disturbed =>
    /\ pdfViewerState.open
    /\ pdfViewerState.filename = settled.call.source
    /\ pdfViewerState.page = settled.call.page
    /\ settled.outcome # "highlight" => ~pdfViewerState.highlightSnippets.defined

\* The chunk of the call that the result names.
dmChosen == CHOOSE i \in 1..Len(dm.chunks) : dm.chunks[i].id = dm.result.chunkId

\* C21: when the regex built from the snippet matches the raw content of the
\* chosen chunk, the text returned is a non-empty literal substring of that
\* raw content.
DirectMatchTextFromSource ==
  /\ dm.pc = "return" /\ dm.result.found
  /\ regexMatch(contentOf(dm.chunks[dmChosen]), buildPattern(trim(dm.snippet))).found
  => /\ dm.result.text # <<>>
     /\ includes(contentOf(dm.chunks[dmChosen]), dm.result.text)

\* The regex matched text of the chunk that differs from the snippet in case
\* or white space, and the document's text was returned.
DirectMatchTextFromSourceWitness ==
  /\ dm.pc = "return" /\ dm.result.found
  /\ regexMatch(contentOf(dm.chunks[dmChosen]), buildPattern(trim(dm.snippet))).found
  /\ dm.result.text # trim(dm.snippet)
  /\ ~includes(contentOf(dm.chunks[dmChosen]), trim(dm.snippet))

\* The chunk-store queries still in flight.
pendingQueries == {i \in 1..Len(queries) : queries[i].outcome = "pending"}

\* C22: the LLM call is issued only once every chunk-store query of the
\* request has completed and the candidate set is non-empty; a request issues
\* at most one LLM call and at most three queries; the response is sent only
\* when no issued call is still in flight.
SequentialCalls ==
  /\ Len(queries) <= 3
  /\ Cardinality({i \in 1..Len(stages) : stages[i] = "llm"}) <= 1
  /\ Cardinality(pendingQueries) <= 1
  /\ inSeq("llm", stages) => pendingQueries = {} /\ chunks # <<>>
  /\ pc = "llm" <=> inSeq("llm", stages) /\ ~LlmRan
  /\ Done => pendingQueries = {} /\ (inSeq("llm", stages) => LlmRan)

\* A request that issued all three queries and then the LLM call has been
\* answered.
SequentialCallsWitness ==
  /\ Done /\ Len(queries) = 3 /\ inSeq("llm", stages) /\ LlmRan
  /\ response.status = 200

\* C23: whatever the interleaving of concurrent requests over a fixed store
\* and an LLM that answers each prompt the same way, the response of every
\* finished request is the one the request gets when it is run alone.
RequestsIndependent ==
  \A i \in 1..Len(requests) :
    requests[i].pc = "done" =>
      requests[i].response = aloneResponse(revision, env, requests[i].body, oracle)

\* Two different requests were in flight together, the event loop went from
\* one to the other, and both got a highlight from different candidate sets.
RequestsIndependentWitness ==
  /\ overlap /\ Len(parked) >= 1
  /\ Done /\ parked[1].pc = "done"
  /\ body # parked[1].body
  /\ response.status = 200 /\ response.highlight.found
  /\ parked[1].response.status = 200 /\ parked[1].response.highlight.found
  /\ response.chunks # parked[1].response.chunks

\* C25: after a run of highlightTextLayer with highlightSnippets non-empty the
\* styled spans are those the snippets alone give on a text layer without
\* styling, whatever fallbackChunks holds and whatever was styled before;
\* with highlightSnippets absent or empty they are those of fallbackChunks.
SnippetPrecedence ==
  viewer.ran =>
    viewer.styled =
      IF nonEmptyList(viewer.highlightSnippets)
      THEN highlightTextLayer(viewer.highlightSnippets, Undefined,
                              textLayerOf(viewer.filename, viewer.pageNumber), {})
      ELSE highlightTextLayer(Undefined, viewer.fallbackChunks,
                              textLayerOf(viewer.filename, viewer.pageNumber), {})

\* A run with a snippet and fallback chunks styled fewer spans than the
\* chunks would have.
SnippetPrecedenceWitness ==
  /\ viewer.ran
  /\ nonEmptyList(viewer.highlightSnippets) /\ nonEmptyList(viewer.fallbackChunks)
  /\ viewer.styled # {}
  /\ viewer.styled #
       highlightTextLayer(Undefined, viewer.fallbackChunks,
                          textLayerOf(viewer.filename, viewer.pageNumber), {})

\* C24: a response with highlight null and chunks to show leaves the viewer
\* state with fallbackChunks and without highlightSnippets, and a run of
\* highlightTextLayer on these props leaves no span of the text layer styled.
FallbackUnhighlighted ==
  /\ settled.outcome = "fallback" =>
       /\ nonEmptyList(pdfViewerState.fallbackChunks)
       /\ ~pdfViewerState.highlightSnippets.defined
  /\ /\ viewer.ran
     /\ ~nonEmptyList(viewer.highlightSnippets)
     /\ nonEmptyList(viewer.fallbackChunks)
     => viewer.styled = {}

\* C27: the highlight text of a 200 response has a character that is not
\* white space.
NonBlankHighlight ==
  Done /\ response.status = 200 /\ response.highlight.found =>
    trim(response.highlight.text) # <<>>

lastWritten == IF ingest.writes = <<>> THEN "none" ELSE ingest.writes[Len(ingest.writes)]

\* C26: for an ingest that passed validation, with a row of document_uploads
\* for the file, 'processing' is written before the PDF is loaded; when the
\* response is sent the last status written is 'completed' exactly if the
\* response is 200, and 'failed' with an error_message if it is 4xx or 5xx;
\* the row is not left at 'processing'.
IngestStatusLifecycle ==
  ingest.hadRow /\ ingest.validated =>
    /\ ingest.pc \in {"load", "nocontent", "split", "store", "completed", "catch"} =>
         ingest.writes # <<>> /\ ingest.writes[1] = "processing"
    /\ ingest.pc = "done" =>
         /\ lastWritten = "completed" <=> ingest.response = 200
         /\ ingest.response >= 400 =>
              lastWritten = "failed" /\ ingest.row.error_message
         /\ ingest.row.status # "processing"

\* C28: when the response of a call of handleShowSource has been processed
\* and the viewer has not been closed since the last click, the viewer shows
\* the source and page of the citation clicked last, whether the call was
\* for that citation or for an earlier one.
LatestCitationWins ==
  settled.outcome # "none" /\ ~settled.call.closed =>
    /\ pdfViewerState.open
    /\ pdfViewerState.filename = settled.call.by.source
    /\ pdfViewerState.page = settled.call.by.page

\* C29: when the response of a call of handleShowSource has been processed
\* and the user closed the viewer while the call was in flight and has not
\* clicked a citation since, the viewer state is null.
ClosedStaysClosed ==
  settled.outcome # "none" /\ settled.call.closed => ~pdfViewerState.open

\* C30: once a document has loaded, so that numPages is known and the footer
\* is displayed, the displayed pageNumber is at least 1 and at most numPages.
ViewerPageBounds ==
  viewer.mounted /\ viewer.numPages # 0 =>
    viewer.pageNumber >= 1 /\ viewer.pageNumber <= viewer.numPages

====
